---- MODULE Spec2Model ----
(***************************************************************************)
(* Model of src/main.go: the PMBus LINEAR11 codec (floatToLinear11,        *)
(* linear11ToFloat) and the bus transactions main issues through           *)
(* initDCandSetVoltage and readPMBusLinear11.                              *)
(*                                                                         *)
(* A float64 is modelled exactly as a rational scaled by a power of two,   *)
(* [n |-> numerator, d |-> denominator, e |-> binary exponent], standing   *)
(* for (n / d) * 2^e.  Division by math.Pow(2, k) and the comparisons the  *)
(* program makes are exact in float64 for these magnitudes, so they are    *)
(* modelled by exact arithmetic.  NaN, which the -volt flag accepts, is    *)
(* the value with denominator 0; every comparison with it is false.        *)
(***************************************************************************)
EXTENDS Integers, Sequences, FiniteSets, TLC

VARIABLES
    callers,        \* the runs of main that share the bus device
    pc,             \* pc[c]: position of caller c in main
    pmbusAddress,   \* pmbusAddress[c]: the -addr flag
    targetVoltage,  \* targetVoltage[c]: the -volt flag
    status,         \* status[c]: "running", "ok" or the log.Fatalf that ended the run
    trace,          \* trace[c]: bus operations issued and function returns, in order
    regPtr,         \* register last selected in the device by a command byte
    job,            \* codec harness: the input handed to the codec
    stage,          \* codec harness: "encode", "decode" or "done"
    encOut,         \* codec harness: result of floatToLinear11
    decOut          \* codec harness: result of linear11ToFloat

vars == <<callers, pc, pmbusAddress, targetVoltage, status, trace, regPtr,
          job, stage, encOut, decOut>>

progVars == <<callers, pc, pmbusAddress, targetVoltage, status, trace, regPtr>>

codecVars == <<job, stage, encOut, decOut>>

(***************************************************************************)
(* Program constants                                                       *)
(***************************************************************************)
VOUT_COMMAND == 33

READ_VOUT == 139

READ_IOUT == 140

MinAddress == 0

MaxAddress == 127

MinExponent == 0 - 15

ExponentLimit == 16

MantissaLow == 0 - 1024

MantissaHigh == 1024

(***************************************************************************)
(* Bounds of the model                                                     *)
(***************************************************************************)
NumCallers == 2

MaxInputExp == 25

(***************************************************************************)
(* float64 arithmetic                                                      *)
(***************************************************************************)
None == [none |-> TRUE]

F(n, d, e) == [n |-> n, d |-> d, e |-> e]

Abs(x) == IF x < 0 THEN 0 - x ELSE x

Min(a, b) == IF a < b THEN a ELSE b

\* ceiling of y / p for p > 0
CeilDiv(y, p) == 0 - ((0 - y) \div p)

NaN == F(0, 0, 0)

IsNaN(a) == a.d = 0

\* a < b on float64 values
Lt(a, b) ==
    /\ ~IsNaN(a)
    /\ ~IsNaN(b)
    /\ LET X == a.n * b.d
           Y == b.n * a.d
           s == a.e - b.e
       IN  IF s >= 0
           THEN X < CeilDiv(Y, 2 ^ Min(s, 30))
           ELSE (X \div (2 ^ Min(0 - s, 30))) < Y

\* a >= b on float64 values
Geq(a, b) == ~IsNaN(a) /\ ~IsNaN(b) /\ ~Lt(a, b)

\* a > b on float64 values
Gt(a, b) == Lt(b, a)

\* volts / math.Pow(2, float64(exponent))
DivPow2(volts, exponent) == F(volts.n, volts.d, volts.e - exponent)

\* int(math.Round(m)): nearest integer, halves away from zero
Round(m) ==
    LET an == Abs(m.n)
        sg == IF m.n < 0 THEN 0 - 1 ELSE 1
        t == 0 - m.e
    IN  IF m.n = 0
        THEN 0
        ELSE IF m.e >= 0
        THEN sg * (((2 * an * (2 ^ m.e)) + m.d) \div (2 * m.d))
        ELSE IF t > 20 /\ 2 * an < m.d * (2 ^ 20)
             THEN 0
             ELSE sg * (((2 * an) + (m.d * (2 ^ t))) \div (2 * m.d * (2 ^ t)))

(***************************************************************************)
(* Linear11 codec                                                          *)
(***************************************************************************)
RECURSIVE ExponentSearch(_, _)
\* the for loop of floatToLinear11: exponent and mantissa when the loop ends
ExponentSearch(volts, exponent) ==
    IF exponent < ExponentLimit
    THEN LET m == DivPow2(volts, exponent)
         IN  IF Geq(m, F(MantissaLow, 1, 0)) /\ Lt(m, F(MantissaHigh, 1, 0))
             THEN [exponent |-> exponent, mantissa |-> Round(m)]
             ELSE ExponentSearch(volts, exponent + 1)
    ELSE [exponent |-> exponent, mantissa |-> 0]

\* uint16((int16(exponent)&0x1F)<<11) | uint16(uint16(mantissa)&0x07FF)
PackRaw(exponent, mantissa) == ((exponent % 32) * 2048) + (mantissa % 2048)

floatToLinear11(volts) ==
    LET r == ExponentSearch(volts, MinExponent)
        raw == PackRaw(r.exponent, r.mantissa)
    IN  <<raw % 256, (raw \div 256) % 256>>

\* linear11ToFloat without the sign extension of the mantissa field
linear11ToFloatUnsignedMantissa(b) ==
    LET raw == (b[1] * 256) + b[2]
        exp0 == raw \div 2048
        exp == IF exp0 > 15 THEN exp0 - 32 ELSE exp0
    IN  F(raw % 2048, 1, exp)

linear11ToFloat(b) ==
    LET raw == (b[1] * 256) + b[2]
        exp0 == raw \div 2048
        exp == IF exp0 > 15 THEN exp0 - 32 ELSE exp0
        mant0 == raw % 2048
        mant == IF mant0 > 1023 THEN mant0 - 2048 ELSE mant0
    IN  F(mant, 1, exp)

(***************************************************************************)
(* Bus primitives: what unix.Write and unix.Read can report                *)
(***************************************************************************)
\* 2-byte replies the device can put on the bus
Replies == {<<187, 154>>, <<216, 0>>}

\* unix.Write(fd, packet): an error, or a count of bytes written up to len(packet)
WriteResults(len) ==
    {[err |-> TRUE, n |-> 0]} \cup {[err |-> FALSE, n |-> k] : k \in 0..len}

\* unix.Read(fd, buf) with buf := make([]byte, 2): an error leaves buf zeroed,
\* otherwise the first n bytes of buf are filled
ReadResults ==
    {[err |-> TRUE, n |-> 0, buf |-> <<0, 0>>]}
    \cup {[err |-> FALSE, n |-> k,
           buf |-> <<IF k >= 1 THEN r[1] ELSE 0, IF k >= 2 THEN r[2] ELSE 0>>] :
             r \in Replies, k \in 0..2}

(***************************************************************************)
(* Transaction layer                                                       *)
(***************************************************************************)
\* the setpoint packet with the read-back command in place of VOUT_COMMAND
SetVoltagePacketWrongCommand(volts) ==
    LET data == floatToLinear11(volts)
    IN  <<READ_VOUT, data[1], data[2]>>

\* packet := []byte{VOUT_COMMAND, data[0], data[1]}
SetVoltagePacket(volts) ==
    LET data == floatToLinear11(volts)
    IN  <<VOUT_COMMAND, data[1], data[2]>>

\* initDCandSetVoltage returns the error of unix.Write and ignores its count
initDCandSetVoltageErr(res) == res.err

\* readPMBusLinear11 returns the error of unix.Read and ignores its count
readPMBusLinear11Err(res) == res.err

\* if *pmbusAddress < 0 || *pmbusAddress > 0x7F
AddressRejected(addr) == addr < MinAddress \/ addr > MaxAddress

\* if *targetVoltage < 0.3 || *targetVoltage > 5.0
VoltageRejected(volts) == Lt(volts, F(3, 10, 0)) \/ Gt(volts, F(5, 1, 0))

\* the device latches the command byte of every write that delivers it
Latch(res, command, old) == IF ~res.err /\ res.n >= 1 THEN command ELSE old

Fatal(c, msg) ==
    /\ status' = [status EXCEPT ![c] = msg]
    /\ pc' = [pc EXCEPT ![c] = "exit"]

Goto(c, label) ==
    /\ pc' = [pc EXCEPT ![c] = label]
    /\ UNCHANGED status

Log(c, events) == trace' = [trace EXCEPT ![c] = @ \o events]

\* main: flag.Parse and the two range checks
Validate(c) ==
    /\ pc[c] = "main"
    /\ IF AddressRejected(pmbusAddress[c])
       THEN Fatal(c, "InvalidAddress")
       ELSE IF VoltageRejected(targetVoltage[c])
            THEN Fatal(c, "InvalidVoltage")
            ELSE Goto(c, "open")
    /\ UNCHANGED <<callers, pmbusAddress, targetVoltage, trace, regPtr>>
    /\ UNCHANGED codecVars

\* main: os.OpenFile(*i2cBusPath, os.O_RDWR, 0600)
OpenFile(c) ==
    /\ pc[c] = "open"
    /\ \E ok \in BOOLEAN :
          /\ Log(c, <<[ev |-> "open", err |-> ~ok]>>)
          /\ IF ok THEN Goto(c, "ioctl") ELSE Fatal(c, "OpenFailed")
    /\ UNCHANGED <<callers, pmbusAddress, targetVoltage, regPtr>>
    /\ UNCHANGED codecVars

\* main: unix.IoctlSetInt(fd, I2C_SLAVE, *pmbusAddress)
IoctlSetInt(c) ==
    /\ pc[c] = "ioctl"
    /\ \E ok \in BOOLEAN :
          /\ Log(c, <<[ev |-> "ioctl", addr |-> pmbusAddress[c], err |-> ~ok]>>)
          /\ IF ok THEN Goto(c, "setVoltage") ELSE Fatal(c, "IoctlFailed")
    /\ UNCHANGED <<callers, pmbusAddress, targetVoltage, regPtr>>
    /\ UNCHANGED codecVars

\* main: initDCandSetVoltage(fd, *targetVoltage)
initDCandSetVoltage(c) ==
    /\ pc[c] = "setVoltage"
    /\ LET packet == SetVoltagePacket(targetVoltage[c])
       IN  \E res \in WriteResults(Len(packet)) :
              LET err == initDCandSetVoltageErr(res)
              IN  /\ Log(c, <<[ev |-> "write", fn |-> "initDCandSetVoltage",
                               bytes |-> packet, n |-> res.n, err |-> res.err],
                              [ev |-> "return", fn |-> "initDCandSetVoltage",
                               err |-> err]>>)
                  /\ regPtr' = Latch(res, packet[1], regPtr)
                  /\ IF err THEN Fatal(c, "SetVoltageError")
                            ELSE Goto(c, "readVout")
    /\ UNCHANGED <<callers, pmbusAddress, targetVoltage>>
    /\ UNCHANGED codecVars

ReadCommand(label) == IF label \in {"readVout", "readVoutData"} THEN READ_VOUT ELSE READ_IOUT

ReadFatal(label) ==
    IF label \in {"readVout", "readVoutData"} THEN "ReadVoltageError" ELSE "ReadCurrentError"

\* readPMBusLinear11, first bus operation: unix.Write(fd, []byte{command})
readPMBusLinear11Select(c) ==
    /\ pc[c] \in {"readVout", "readIout"}
    /\ LET command == ReadCommand(pc[c])
       IN  \E res \in WriteResults(1) :
              /\ regPtr' = Latch(res, command, regPtr)
              /\ IF res.err
                 THEN /\ Log(c, <<[ev |-> "write", fn |-> "readPMBusLinear11",
                                   bytes |-> <<command>>, n |-> res.n, err |-> res.err],
                                  [ev |-> "return", fn |-> "readPMBusLinear11",
                                   err |-> TRUE]>>)
                      /\ Fatal(c, ReadFatal(pc[c]))
                 ELSE /\ Log(c, <<[ev |-> "write", fn |-> "readPMBusLinear11",
                                   bytes |-> <<command>>, n |-> res.n, err |-> res.err]>>)
                      /\ Goto(c, IF pc[c] = "readVout" THEN "readVoutData"
                                                       ELSE "readIoutData")
    /\ UNCHANGED <<callers, pmbusAddress, targetVoltage>>
    /\ UNCHANGED codecVars

\* readPMBusLinear11, second bus operation: unix.Read(fd, buf), then the decode
\* and the return to main, which prints the value or dies
readPMBusLinear11Data(c) ==
    /\ pc[c] \in {"readVoutData", "readIoutData"}
    /\ \E res \in ReadResults :
          LET err == readPMBusLinear11Err(res)
          IN  /\ Log(c, <<[ev |-> "read", fn |-> "readPMBusLinear11",
                           reg |-> regPtr, n |-> res.n, err |-> res.err],
                          IF err
                          THEN [ev |-> "return", fn |-> "readPMBusLinear11",
                                err |-> TRUE]
                          ELSE [ev |-> "return", fn |-> "readPMBusLinear11",
                                err |-> FALSE, val |-> linear11ToFloat(res.buf)]>>)
              /\ IF err
                 THEN Fatal(c, ReadFatal(pc[c]))
                 ELSE IF pc[c] = "readVoutData"
                      THEN Goto(c, "readIout")
                      ELSE /\ pc' = [pc EXCEPT ![c] = "exit"]
                           /\ status' = [status EXCEPT ![c] = "ok"]
    /\ UNCHANGED <<callers, pmbusAddress, targetVoltage, regPtr>>
    /\ UNCHANGED codecVars

(***************************************************************************)
(* Inputs                                                                  *)
(***************************************************************************)
\* -addr values: both ends of the valid range and their outer neighbours
Addresses == {0 - 1, 0, 64, 127, 128}

\* -volt values: 0.25, 0.3, 1.0, 1.8, 2047/1024, 5.0, 5.5, NaN
Voltages == {F(1, 4, 0), F(3, 10, 0), F(1, 1, 0), F(9, 5, 0),
             F(2047, 1, 0 - 10), F(5, 1, 0), F(11, 2, 0), NaN}

\* values handed to floatToLinear11 directly
EncodeInputs ==
    Voltages
    \cup {F(s * n, 1, e) : s \in {0 - 1, 1}, n \in {0, 1, 3, 1023, 2047, 4097},
                           e \in (0 - 20)..MaxInputExp}
    \cup {F(0 - 9, 5, 0)}

Bytes == 0..255

(***************************************************************************)
(* Codec harness: apply the codec to one input                             *)
(***************************************************************************)
Encode ==
    /\ stage = "encode"
    /\ LET r == ExponentSearch(job.v, MinExponent)
       IN  encOut' = [exponent |-> r.exponent, mantissa |-> r.mantissa,
                      bytes |-> floatToLinear11(job.v)]
    /\ stage' = IF job.kind = "roundtrip" THEN "decode" ELSE "done"
    /\ UNCHANGED <<job, decOut>>
    /\ UNCHANGED progVars

Decode ==
    /\ stage = "decode"
    /\ decOut' = linear11ToFloat(IF job.kind = "roundtrip" THEN encOut.bytes ELSE job.b)
    /\ stage' = "done"
    /\ UNCHANGED <<job, encOut>>
    /\ UNCHANGED progVars

(***************************************************************************)
(* Specifications                                                          *)
(***************************************************************************)
NoCodec ==
    /\ job = None
    /\ stage = "idle"
    /\ encOut = None
    /\ decOut = None

InitCallers(cs, addrs, volts) ==
    /\ callers = cs
    /\ pc = [c \in cs |-> "main"]
    /\ pmbusAddress \in [cs -> addrs]
    /\ targetVoltage \in [cs -> volts]
    /\ status = [c \in cs |-> "running"]
    /\ trace = [c \in cs |-> <<>>]
    /\ regPtr = 0

\* one run of main
Init == InitCallers({1}, Addresses, Voltages) /\ NoCodec

\* several runs of main against the same device
InitShared == InitCallers(1..NumCallers, {64}, {F(1, 1, 0)}) /\ NoCodec

\* the codec applied to one input
InitCodec ==
    /\ InitCallers({}, {}, {})
    /\ \/ /\ job \in {[kind |-> k, v |-> v] : k \in {"encode", "roundtrip"},
                                              v \in EncodeInputs}
          /\ stage = "encode"
       \/ /\ job \in {[kind |-> "decode", b |-> <<b0, b1>>] : b0 \in Bytes, b1 \in Bytes}
          /\ stage = "decode"
    /\ encOut = None
    /\ decOut = None

Next ==
    \/ \E c \in callers : Validate(c)
    \/ \E c \in callers : OpenFile(c)
    \/ \E c \in callers : IoctlSetInt(c)
    \/ \E c \in callers : initDCandSetVoltage(c)
    \/ \E c \in callers : readPMBusLinear11Select(c)
    \/ \E c \in callers : readPMBusLinear11Data(c)

NextCodec == Encode \/ Decode

Spec == Init /\ [][Next]_vars

SpecShared == InitShared /\ [][Next]_vars

SpecCodec == InitCodec /\ [][NextCodec]_vars

(***************************************************************************)
(* Vocabulary of the properties                                            *)
(***************************************************************************)
\* round(v / 2^E), ties away from zero, lies in [-1024, 1024):
\* -1024.5 < v / 2^E < 1023.5, stated on 2 * v / 2^E
FitsRounded(v, E) ==
    LET m2 == F(v.n, v.d, (v.e - E) + 1)
    IN  /\ Lt(m2, F(2047, 1, 0))
        /\ Gt(m2, F(0 - 2049, 1, 0))

Exponents == (0 - 15)..15

\* -1024 * 2^15 <= v < 1024 * 2^15: the values for which the encoder finds an
\* exponent and so has a word to return
InEnvelope(v) == Geq(v, F(0 - 1024, 1, 15)) /\ Lt(v, F(1024, 1, 15))

\* some exponent of the search range gives a mantissa that fits
Representable(v) == \E E \in Exponents : FitsRounded(v, E)

\* v + sg * 2^x, for values whose exponents are close enough to align
AddPow2(v, sg, x) ==
    LET k == Min(v.e, x)
    IN  F((IF v.n = 0 THEN 0 ELSE v.n * (2 ^ (v.e - k))) + (sg * v.d * (2 ^ (x - k))),
          v.d, k)

\* |a - v| <= 2^x
Within(a, v, x) ==
    /\ ~Lt(AddPow2(v, 1, x), a)
    /\ ~Lt(a, AddPow2(v, 0 - 1, x))

\* field of `bits` bits read as two's complement
SignExtend(field, bits) ==
    ((field + (2 ^ (bits - 1))) % (2 ^ bits)) - (2 ^ (bits - 1))

Events(c, ev, fn) ==
    {i \in DOMAIN trace[c] : trace[c][i].ev = ev /\ trace[c][i].fn = fn}

BusEvents(c) == {i \in DOMAIN trace[c] : trace[c][i].ev # "return"}

EncodeDone == stage = "done" /\ job.kind = "encode"

RoundTripDone == stage = "done" /\ job.kind = "roundtrip"

DecodeDone == stage = "done" /\ job.kind = "decode"

(***************************************************************************)
(* C1: for every v that no exponent in -15..15 fits, floatToLinear11 fails *)
(* with OutOfRange and returns no LINEAR11 word.                           *)
(***************************************************************************)
C1_OutOfRangeReturnsNoWord ==
    (EncodeDone /\ ~Representable(job.v)) => "bytes" \notin DOMAIN encOut

(***************************************************************************)
(* C2: readPMBusLinear11 returns an error and no value whenever the read   *)
(* primitive reports an error or delivers fewer than 2 bytes; it returns a *)
(* decoded value only when exactly 2 bytes were read.                      *)
(***************************************************************************)
C2_ShortReadIsIOError ==
    \A c \in callers : \A i \in Events(c, "read", "readPMBusLinear11") :
        LET rd == trace[c][i]
            rt == trace[c][i + 1]
        IN  /\ (rd.err \/ rd.n < 2) => (rt.err /\ "val" \notin DOMAIN rt)
            /\ ~rt.err => (~rd.err /\ rd.n = 2)

(***************************************************************************)
(* C3: initDCandSetVoltage returns an error whenever the write primitive   *)
(* reports an error or fewer than the 3 requested bytes; it succeeds only  *)
(* when all 3 bytes were written, and it never retries the write.          *)
(***************************************************************************)
C3_ShortWriteIsIOError ==
    \A c \in callers :
        /\ Cardinality(Events(c, "write", "initDCandSetVoltage")) <= 1
        /\ \A i \in Events(c, "write", "initDCandSetVoltage") :
              LET wr == trace[c][i]
                  rt == trace[c][i + 1]
              IN  /\ (wr.err \/ wr.n < Len(wr.bytes)) => rt.err
                  /\ ~rt.err => (~wr.err /\ wr.n = 3)

(***************************************************************************)
(* C4: for every representable v, linear11ToFloat of the two bytes that    *)
(* floatToLinear11(v) produced is within 2^E / 2 of v, E being the         *)
(* exponent the encoder selected.                                          *)
(***************************************************************************)
C4_RoundTripWithinHalfStep ==
    (RoundTripDone /\ Representable(job.v))
        => Within(decOut, job.v, encOut.exponent - 1)

(***************************************************************************)
(* C5: whenever floatToLinear11 has a word to return, the rounded mantissa *)
(* it packs is in -1024..1023 and the exponent is in -15..15, so the masks *)
(* change neither.                                                         *)
(***************************************************************************)
C5_PackedFieldsFit ==
    (EncodeDone /\ InEnvelope(job.v)) =>
        /\ encOut.mantissa >= 0 - 1024
        /\ encOut.mantissa <= 1023
        /\ encOut.exponent \in Exponents
        /\ SignExtend(encOut.mantissa % 2048, 11) = encOut.mantissa
        /\ SignExtend(encOut.exponent % 32, 5) = encOut.exponent

(***************************************************************************)
(* C6: for every representable v, the exponent floatToLinear11 selects is  *)
(* the smallest E in -15..15 whose rounded mantissa lies in [-1024, 1024). *)
(***************************************************************************)
C6_SmallestFittingExponent ==
    (EncodeDone /\ Representable(job.v)) =>
        /\ encOut.exponent \in Exponents
        /\ FitsRounded(job.v, encOut.exponent)
        /\ \A E \in Exponents : E < encOut.exponent => ~FitsRounded(job.v, E)

(***************************************************************************)
(* C7: linear11ToFloat is total: for each of the 65536 words (first byte   *)
(* high) it returns N * 2^E, E the top 5 bits and N the low 11 bits, both  *)
(* read as two's complement.                                               *)
(***************************************************************************)
C7_DecodeTotal ==
    DecodeDone =>
        LET w == (job.b[1] * 256) + job.b[2]
        IN  decOut = F(SignExtend(w % 2048, 11), 1, SignExtend(w \div 2048, 5))

\* the word 0x8400 (E = -16, N = -1024) has been decoded
C7_Witness ==
    /\ DecodeDone
    /\ job.b = <<132, 0>>
    /\ decOut.e = 0 - 16
    /\ decOut.n = 0 - 1024

(***************************************************************************)
(* C8: a run whose address is outside 0x00..0x7F or whose voltage is       *)
(* outside 0.3..5.0 ends with a validation failure before any bus          *)
(* operation; the boundary values are accepted and the run goes on to the  *)
(* bus.                                                                    *)
(***************************************************************************)
ValidFlags(c) ==
    /\ pmbusAddress[c] \in 0..127
    /\ Geq(targetVoltage[c], F(3, 10, 0))
    /\ Geq(F(5, 1, 0), targetVoltage[c])

ValidationFailures == {"InvalidAddress", "InvalidVoltage"}

C8_ValidationBeforeBus ==
    \A c \in callers :
        IF ValidFlags(c)
        THEN /\ status[c] \notin ValidationFailures
             /\ (pc[c] # "main" /\ trace[c] = <<>>) => pc[c] = "open"
        ELSE /\ BusEvents(c) = {}
             /\ pc[c] \in {"main", "exit"}
             /\ pc[c] = "exit" => status[c] \in ValidationFailures

(***************************************************************************)
(* C9: with two or more callers on one device, the register-select write   *)
(* and the data read of one readPMBusLinear11 call are never separated by  *)
(* another caller's bus operation: every data read returns the register    *)
(* its own call selected.                                                  *)
(***************************************************************************)
C9_ReadReturnsSelectedRegister ==
    \A c \in callers : \A i \in Events(c, "read", "readPMBusLinear11") :
        LET sel == trace[c][i - 1]
        IN  (sel.ev = "write" /\ ~sel.err /\ sel.n = 1)
                => trace[c][i].reg = sel.bytes[1]

(***************************************************************************)
(* C10: one initDCandSetVoltage call issues exactly one bus write and no   *)
(* bus read; the write carries 3 bytes: the command 0x21, then the two     *)
(* bytes of the LINEAR11 word encoded for the target voltage.              *)
(***************************************************************************)
C10_OneThreeByteWrite ==
    \A c \in callers :
        LET writes == Events(c, "write", "initDCandSetVoltage")
            returned == Events(c, "return", "initDCandSetVoltage") # {}
        IN  /\ Events(c, "read", "initDCandSetVoltage") = {}
            /\ Cardinality(writes) = IF returned THEN 1 ELSE 0
            /\ \A i \in writes :
                  LET bytes == trace[c][i].bytes
                      r == ExponentSearch(targetVoltage[c], MinExponent)
                      word == PackRaw(r.exponent, r.mantissa)
                  IN  /\ Len(bytes) = 3
                      /\ bytes[1] = 33
                      /\ {bytes[2], bytes[3]} = {word % 256, word \div 256}
                      /\ bytes[2] + (256 * bytes[3]) = word

\* the setpoint 1.8 V went out as 0x21 0x9A 0xBB and the call returned
C10_Witness ==
    \E c \in callers :
        /\ targetVoltage[c] = F(9, 5, 0)
        /\ Events(c, "return", "initDCandSetVoltage") # {}
        /\ \E i \in Events(c, "write", "initDCandSetVoltage") :
              trace[c][i].bytes = <<33, 154, 187>>

====
